---- MODULE Spec2Model ----
(***************************************************************************)
(* Model of the URL signing client of aliyun-oss-rust-sdk (src/oss.rs,     *)
(* src/object.rs).                                                         *)
(*                                                                         *)
(* A Rust String is a sequence of characters, each character a one-letter  *)
(* TLA+ string.  "\n" is the line feed and "U+5185" the three-byte CJK     *)
(* character of the key used in the tests of oss.rs.  Comparison and       *)
(* percent-encoding work on the UTF-8 bytes of a string, as in Rust.       *)
(***************************************************************************)
EXTENDS Integers, Sequences, FiniteSets, TLC

VARIABLES oss, key, build, cdn, now, tz, ret

vars == <<oss, key, build, cdn, now, tz, ret>>

(***************************************************************************)
(* Characters and bytes                                                    *)
(***************************************************************************)

Upper ==
    << "A", "B", "C", "D", "E", "F", "G", "H", "I", "J", "K", "L", "M",
       "N", "O", "P", "Q", "R", "S", "T", "U", "V", "W", "X", "Y", "Z" >>

Lower ==
    << "a", "b", "c", "d", "e", "f", "g", "h", "i", "j", "k", "l", "m",
       "n", "o", "p", "q", "r", "s", "t", "u", "v", "w", "x", "y", "z" >>

Digits == << "0", "1", "2", "3", "4", "5", "6", "7", "8", "9" >>

\* The other ASCII characters the model uses, each with its code.
Punct ==
    { << " ", 32 >>, << "%", 37 >>, << "&", 38 >>, << "+", 43 >>, << ",", 44 >>,
      << "-", 45 >>, << ".", 46 >>, << "/", 47 >>, << ":", 58 >>, << "=", 61 >>,
      << "?", 63 >>, << "_", 95 >>, << "~", 126 >> }

Range(s) == { s[i] : i \in DOMAIN s }

AsciiChars == Range(Upper) \cup Range(Lower) \cup Range(Digits) \cup { p[1] : p \in Punct }

AsciiCode ==
    [ c \in AsciiChars |->
        IF c \in Range(Upper) THEN 64 + (CHOOSE i \in DOMAIN Upper : Upper[i] = c)
        ELSE IF c \in Range(Lower) THEN 96 + (CHOOSE i \in DOMAIN Lower : Lower[i] = c)
        ELSE IF c \in Range(Digits) THEN 47 + (CHOOSE i \in DOMAIN Digits : Digits[i] = c)
        ELSE (CHOOSE p \in Punct : p[1] = c)[2] ]

\* The character of an ASCII byte.
ByteChar == [ b \in { AsciiCode[c] : c \in AsciiChars } |-> CHOOSE c \in AsciiChars : AsciiCode[c] = b ]

\* The UTF-8 bytes of each character.
Utf8 ==
    [ c \in AsciiChars \cup { "\n", "U+5185" } |->
        IF c = "\n" THEN << 10 >>
        ELSE IF c = "U+5185" THEN << 229, 134, 133 >>
        ELSE << AsciiCode[c] >> ]

RECURSIVE Bytes(_)
\* str::as_bytes
Bytes(s) == IF s = << >> THEN << >> ELSE Utf8[Head(s)] \o Bytes(Tail(s))

\* Lexicographic order of byte sequences: the first difference decides, and
\* a proper prefix comes first.
BytesLess(a, b) ==
    LET n == IF Len(a) < Len(b) THEN Len(a) ELSE Len(b)
        diff == { i \in 1..n : a[i] # b[i] }
    IN  IF diff = {} THEN Len(a) < Len(b)
        ELSE LET i == CHOOSE j \in diff : \A h \in diff : j <= h
             IN  a[i] < b[i]

\* <String as Ord>::cmp(a, b) == Less: byte-wise lexicographic order.
StrLess(a, b) == BytesLess(Bytes(a), Bytes(b))

\* str::starts_with
StartsWith(s, p) == Len(s) >= Len(p) /\ SubSeq(s, 1, Len(p)) = p

RECURSIVE Split(_, _)
\* str::split(sep) for a one-character separator: the segments, empty ones included.
Split(s, sep) ==
    IF \A i \in DOMAIN s : s[i] # sep THEN << s >>
    ELSE LET i == CHOOSE j \in DOMAIN s : s[j] = sep /\ \A h \in 1..(j - 1) : s[h] # sep
         IN  << SubSeq(s, 1, i - 1) >> \o Split(SubSeq(s, i + 1, Len(s)), sep)

RECURSIVE Join(_, _)
\* [String]::join(sep)
Join(parts, sep) ==
    IF parts = << >> THEN << >>
    ELSE IF Len(parts) = 1 THEN parts[1]
    ELSE parts[1] \o sep \o Join(Tail(parts), sep)

RECURSIVE ReplaceFirst(_, _)
\* str::replacen(pat, "", 1): the first occurrence of pat is removed.
ReplaceFirst(s, pat) ==
    IF Len(s) < Len(pat) THEN s
    ELSE IF StartsWith(s, pat) THEN SubSeq(s, Len(pat) + 1, Len(s))
    ELSE << Head(s) >> \o ReplaceFirst(Tail(s), pat)

RECURSIVE NatToString(_)
NatToString(n) ==
    IF n < 10 THEN << Digits[n + 1] >>
    ELSE NatToString(n \div 10) \o << Digits[(n % 10) + 1] >>

\* i64::to_string
to_string(n) == IF n < 0 THEN << "-" >> \o NatToString(-n) ELSE NatToString(n)

(***************************************************************************)
(* urlencoding::encode                                                     *)
(***************************************************************************)

HexDigits == << "0", "1", "2", "3", "4", "5", "6", "7", "8", "9", "A", "B", "C", "D", "E", "F" >>

\* The bytes urlencoding::encode leaves alone: ASCII letters, digits, - _ . ~
Unreserved ==
    { b \in 0..127 : \/ b \in 48..57 \/ b \in 65..90 \/ b \in 97..122
                     \/ b \in { 45, 46, 95, 126 } }

EncodeByte(b) ==
    IF b \in Unreserved THEN << ByteChar[b] >>
    ELSE << "%", HexDigits[(b \div 16) + 1], HexDigits[(b % 16) + 1] >>

RECURSIVE EncodeBytes(_)
EncodeBytes(bs) == IF bs = << >> THEN << >> ELSE EncodeByte(Head(bs)) \o EncodeBytes(Tail(bs))

\* urlencoding::encode(s)
encode(s) == EncodeBytes(Bytes(s))

(***************************************************************************)
(* trait API: key_urlencode, format_key                                    *)
(***************************************************************************)

key_urlencode_whole(k) == encode(k)

key_urlencode(k) ==
    LET segs == Split(k, "/")
    IN  Join([ i \in DOMAIN segs |-> encode(segs[i]) ], << "/" >>)

format_key_always_prepend(k) == << "/" >> \o k

format_key(k) == IF StartsWith(k, << "/" >>) THEN k ELSE << "/" >> \o k

\* format_oss_resource_str(bucket, key)
format_oss_resource_str(bucket, k) ==
    IF bucket = << >> THEN << "/" >> \o bucket ELSE << "/" >> \o bucket \o k

(***************************************************************************)
(* Names the code spells out                                               *)
(***************************************************************************)

S_Date == << "D", "a", "t", "e" >>
S_Expires == << "E", "x", "p", "i", "r", "e", "s" >>
S_OSSAccessKeyId == << "O", "S", "S", "A", "c", "c", "e", "s", "s", "K", "e", "y", "I", "d" >>
S_Signature == << "S", "i", "g", "n", "a", "t", "u", "r", "e" >>
S_SourceIp ==
    << "x", "-", "o", "s", "s", "-", "a", "c", "-", "s", "o", "u", "r", "c", "e", "-", "i", "p" >>
S_Http == << "h", "t", "t", "p", ":", "/", "/" >>
S_Https == << "h", "t", "t", "p", "s", ":", "/", "/" >>
S_Authorization ==
    << "A", "u", "t", "h", "o", "r", "i", "z", "a", "t", "i", "o", "n" >>
S_ContentType == << "C", "o", "n", "t", "e", "n", "t", "-", "T", "y", "p", "e" >>
S_XOss == << "x", "-", "o", "s", "s", "-" >>

(***************************************************************************)
(* Vec<(String, String)>::sort_by(|a, b| a.0.cmp(&b.0)): a stable sort     *)
(***************************************************************************)

RECURSIVE InsertByName(_, _)
\* x goes after every element whose name is not greater than its own.
InsertByName(v, x) ==
    IF v = << >> THEN << x >>
    ELSE IF StrLess(x[1], Head(v)[1]) THEN << x >> \o v
    ELSE << Head(v) >> \o InsertByName(Tail(v), x)

RECURSIVE SortedByName(_)
SortedByName(v) ==
    IF v = << >> THEN << >>
    ELSE InsertByName(SortedByName(SubSeq(v, 1, Len(v) - 1)), v[Len(v)])

sort_by_skipped(v) == v

sort_by(v) == SortedByName(v)

(***************************************************************************)
(* AuthAPI::sign (crate::auth), after sections 4.1 and 4.2 of the          *)
(* specification: the canonical string, and a keyed digest of it in        *)
(* base64.  The digest stands for HMAC + base64: a function of the secret  *)
(* and the message whose output uses the base64 letters + / and =.         *)
(***************************************************************************)

Base64Chars == Upper \o Lower \o Digits \o << "+", "/" >>

\* The x-oss- headers, each as name:value\n, in ascending order of name.
CanonicalizedOssHeaders(header) ==
    LET names == { h \in DOMAIN header : StartsWith(h, S_XOss) }
        Pick[S \in SUBSET names] ==
            IF S = {} THEN << >>
            ELSE LET h == CHOOSE x \in S : \A y \in S \ {x} : StrLess(x, y)
                 IN  h \o << ":" >> \o header[h] \o << "\n" >> \o Pick[S \ {h}]
    IN  Pick[names]

CanonicalString(self, method, k, header) ==
    method \o << "\n" >>
        \o << "\n" >>
        \o (IF S_ContentType \in DOMAIN header THEN header[S_ContentType] ELSE << >>) \o << "\n" >>
        \o header[S_Date] \o << "\n" >>
        \o CanonicalizedOssHeaders(header)
        \o format_oss_resource_str(self.bucket, k)

RECURSIVE WeightedSum(_, _)
WeightedSum(bs, i) == IF bs = << >> THEN 0 ELSE i * Head(bs) + WeightedSum(Tail(bs), i + 1)

Digest(secret, msg) ==
    LET h == WeightedSum(Bytes(secret) \o << 0 >> \o Bytes(msg), 1) % 4096
    IN  << Base64Chars[(h \div 64) + 1], Base64Chars[(h % 64) + 1], "=" >>

sign(self, method, k, header) == Digest(self.key_secret, CanonicalString(self, method, k, header))

(***************************************************************************)
(* API::sign_url                                                           *)
(***************************************************************************)

\* The header map handed to sign: Date is the expiration, local being the
\* value of chrono::Local::now().naive_local() as seconds.
sign_url_header(b, local) == S_Date :> to_string(local + b.expire)

\* HashMap::insert of every caller parameter, after the three system ones.
insert_parameters_system_last(system, parameters) ==
    [ n \in DOMAIN system \cup DOMAIN parameters |->
        IF n \in DOMAIN system THEN system[n] ELSE encode(parameters[n]) ]

insert_parameters(system, parameters) ==
    [ n \in DOMAIN system \cup DOMAIN parameters |->
        IF n \in DOMAIN parameters THEN encode(parameters[n]) ELSE system[n] ]

\* The map query_parameters once the caller's parameters are in.
query_parameters(self, k, b, local) ==
    LET header == sign_url_header(b, local)
        signature == sign(self, b.method, format_key(k), header)
        system == (S_Expires :> to_string(local + b.expire))
                      @@ (S_OSSAccessKeyId :> self.key_id)
                      @@ (S_Signature :> encode(signature))
    IN  insert_parameters(system, b.parameters)

filter_none(order) == order

\* .filter(|(k, _)| k != "x-oss-ac-source-ip") over the names in iteration order
filter(order) == SelectSeq(order, LAMBDA n : n # S_SourceIp)

\* The query string: order is the order in which into_iter yields the map.
query_string(qp, order) ==
    LET kept == filter(order)
        params == sort_by([ i \in DOMAIN kept |-> << kept[i], qp[kept[i]] >> ])
    IN  Join([ i \in DOMAIN params |-> params[i][1] \o << "=" >> \o params[i][2] ], << "&" >>)

\* The rest of sign_url, from into_iter on: k is the formatted key.
sign_url_format(k, qp, order) == key_urlencode(k) \o << "?" >> \o query_string(qp, order)

sign_url(self, k, b, local, order) ==
    sign_url_format(format_key(k), query_parameters(self, k, b, local), order)

RECURSIVE Perms(_)
\* Every order in which a hash map with the keys S can be iterated.
Perms(S) ==
    IF S = {} THEN { << >> }
    ELSE UNION { { << x >> \o p : p \in Perms(S \ {x}) } : x \in S }

\* The longest key of the key profile, and the most caller parameters of the
\* builders that are enumerated in full.
MaxKeyLen == 3
MaxParams == 2

RECURSIVE SomeOrder(_)
\* One of the orders of the set S.
SomeOrder(S) ==
    IF S = {} THEN << >>
    ELSE LET x == CHOOSE y \in S : TRUE IN << x >> \o SomeOrder(S \ {x})

Reverse(s) == [ i \in DOMAIN s |-> s[Len(s) + 1 - i] ]

Rotations(s) == { SubSeq(s, i, Len(s)) \o SubSeq(s, 1, i - 1) : i \in DOMAIN s }

\* The orders in which into_iter may yield the map: every order for the maps
\* of the enumerated builders (three system entries and at most MaxParams of
\* the caller's); for a larger map the rotations of one order and of its
\* reverse.
IterationOrders(qp) ==
    IF Cardinality(DOMAIN qp) <= 3 + MaxParams THEN Perms(DOMAIN qp)
    ELSE Rotations(SomeOrder(DOMAIN qp)) \cup Rotations(Reverse(SomeOrder(DOMAIN qp)))

(***************************************************************************)
(* OSSAPI: sign_url_with_endpoint, sign_url_with_cdn                       *)
(***************************************************************************)

\* format!("{}.{}{}", bucket, endpoint, signed), signed being sign_url's result
sign_url_with_endpoint(self, signed) == self.bucket \o << "." >> \o self.endpoint \o signed

sign_url_with_cdn_by_endpoint(self, c, signed) == self.endpoint \o signed

\* format!("{}{}", cdn, signed), signed being sign_url's result
sign_url_with_cdn(self, c, signed) == c \o signed

(***************************************************************************)
(* impl OSS: format_host, date, build_request                              *)
(***************************************************************************)

format_host(self, bucket, k) ==
    IF StartsWith(self.endpoint, << "h", "t", "t", "p", "s" >>)
    THEN S_Https \o bucket \o << "." >> \o ReplaceFirst(self.endpoint, S_Https) \o << "/" >> \o k
    ELSE S_Http \o bucket \o << "." >> \o ReplaceFirst(self.endpoint, S_Http) \o << "/" >> \o k

WeekdayNames ==
    << << "S", "u", "n" >>, << "M", "o", "n" >>, << "T", "u", "e" >>, << "W", "e", "d" >>,
       << "T", "h", "u" >>, << "F", "r", "i" >>, << "S", "a", "t" >> >>

MonthNames ==
    << << "J", "a", "n" >>, << "F", "e", "b" >>, << "M", "a", "r" >>, << "A", "p", "r" >>,
       << "M", "a", "y" >>, << "J", "u", "n" >>, << "J", "u", "l" >>, << "A", "u", "g" >>,
       << "S", "e", "p" >>, << "O", "c", "t" >>, << "N", "o", "v" >>, << "D", "e", "c" >> >>

TwoDigits(n) == << Digits[(n \div 10) + 1], Digits[(n % 10) + 1] >>

\* The civil date of a day count since 1970-01-01, as chrono computes it.
CivilFromDays(days) ==
    LET z == days + 719468
        era == z \div 146097
        doe == z - era * 146097
        yoe == (doe - doe \div 1460 + doe \div 36524 - doe \div 146096) \div 365
        doy == doe - (365 * yoe + yoe \div 4 - yoe \div 100)
        mp == (5 * doy + 2) \div 153
        m == IF mp < 10 THEN mp + 3 ELSE mp - 9
    IN  [ year |-> yoe + era * 400 + (IF m <= 2 THEN 1 ELSE 0),
          month |-> m,
          day |-> doy - (153 * mp + 2) \div 5 + 1 ]

\* date(): Local::now() formatted with "%a, %d %b %Y %T GMT"; local is the
\* local wall clock in seconds.
date(local) ==
    LET days == local \div 86400
        secs == local % 86400
        d == CivilFromDays(days)
    IN  WeekdayNames[((days + 4) % 7) + 1] \o << ",", " " >>
            \o TwoDigits(d.day) \o << " " >> \o MonthNames[d.month] \o << " " >>
            \o to_string(d.year) \o << " " >>
            \o TwoDigits(secs \div 3600) \o << ":" >> \o TwoDigits((secs % 3600) \div 60)
            \o << ":" >> \o TwoDigits(secs % 60)
            \o << " ", "G", "M", "T" >>

\* build_request: host and date are computed and dropped (the insertion of
\* DATE is commented out); the url is "" and the header map is empty.
build_request(self, method, k, headers, local) ==
    LET host == format_host(self, self.bucket, k)
        header == << >>
        d == date(local)
    IN  [ url |-> << >>, header |-> header ]

(***************************************************************************)
(* The inputs                                                              *)
(***************************************************************************)

KeyChars == { "a", "/", " ", "%", "U+5185" }

RECURSIVE Strings(_, _)
\* The strings over the characters A of length at most n.
Strings(A, n) ==
    IF n = 0 THEN { << >> }
    ELSE LET shorter == Strings(A, n - 1)
         IN  shorter \cup { s \o << c >> : s \in shorter, c \in A }

Keys == Strings(KeyChars, MaxKeyLen)

S_Get == << "G", "E", "T" >>
S_TrafficLimit ==
    << "x", "-", "o", "s", "s", "-", "t", "r", "a", "f", "f", "i", "c", "-", "l", "i", "m", "i", "t" >>

\* The names a caller may give a query parameter: the three the code sets
\* itself, the one it drops, and ordinary ones, p1 being a prefix of p10.
ParamNames ==
    { S_Expires, S_OSSAccessKeyId, S_Signature, S_SourceIp, S_TrafficLimit,
      << "p", "1" >>, << "p", "1", "0" >> }

ParamValues == { << "3", "0" >>, << "a", " ", "/" >> }

ParameterMaps(names, n) ==
    UNION { [ D -> ParamValues ] : D \in { X \in SUBSET names : Cardinality(X) <= n } }

\* RequestBuilder as sign_url reads it: method, expire, parameters.
Builds(names, n) ==
    [ method : { S_Get }, expire : { 60 }, parameters : ParameterMaps(names, n) ]

\* A builder of twelve parameters: p1 to p10, the denied name and the
\* traffic limit.
ManyNames ==
    { << "p", Digits[i] >> : i \in 2..10 } \cup { << "p", "1", "0" >>, S_SourceIp, S_TrafficLimit }

LargeBuild ==
    [ method |-> S_Get, expire |-> 60, parameters |-> [ n \in ManyNames |-> << "3", "0" >> ] ]

S_Host == << "o", "s", "s", ".", "c", "n" >>

Endpoints == { S_Host, S_Http \o S_Host, S_Https \o S_Host }

Buckets == { << "b" >>, << >> }

Cdns == { S_Http \o << "c", ".", "c", "n" >>, S_Https \o << "c", ".", "c", "n" >> }

\* OSS::new(key_id, key_secret, endpoint, bucket)
new(key_id, key_secret, endpoint, bucket) ==
    [ key_id |-> key_id, key_secret |-> key_secret, endpoint |-> endpoint, bucket |-> bucket ]

Clients == { new(<< "A", "K" >>, << "S", "K" >>, e, b) : e \in Endpoints, b \in Buckets }

\* Wall clock readings (Unix seconds) and offsets of local time from UTC.
Clocks == { 1700000000, 1700000001 }
TzOffsets == { 0, 28800 }

NoCall == [ op |-> "none", out |-> << >>, header |-> << >>, clock |-> 0 ]

\* Nothing has been called yet.
Fresh == now = 1700000000 /\ tz \in TzOffsets /\ ret = NoCall

\* Every key, one client, one builder.
InitKey ==
    /\ oss = new(<< "A", "K" >>, << "S", "K" >>, S_Host, << "b" >>)
    /\ key \in Keys
    /\ build \in Builds({}, 0)
    /\ cdn \in { S_Http \o << "c", ".", "c", "n" >> }
    /\ Fresh

\* Every builder of at most MaxParams parameters and the large one, one
\* client, one key.
InitSign ==
    /\ oss = new(<< "A", "K" >>, << "S", "K" >>, S_Host, << "b" >>)
    /\ key \in { << "a", " ", "/", "b" >> }
    /\ build \in Builds(ParamNames, MaxParams) \cup { LargeBuild }
    /\ cdn \in { S_Http \o << "c", ".", "c", "n" >> }
    /\ Fresh

\* Every client and cdn, builders of at most one parameter.
InitUrl ==
    /\ oss \in Clients
    /\ key \in { << "a" >>, << "/", "a", " ", "b" >> }
    /\ build \in Builds({ S_SourceIp, S_TrafficLimit }, 1)
    /\ cdn \in Cdns
    /\ Fresh

Init == InitKey \/ InitSign \/ InitUrl

(***************************************************************************)
(* The operations                                                          *)
(***************************************************************************)

Frame == UNCHANGED << oss, key, build, cdn, now, tz >>

\* chrono::Local::now().naive_local(), in seconds
Local == now + tz

Tick ==
    /\ \E t \in Clocks : t > now /\ now' = t
    /\ UNCHANGED << oss, key, build, cdn, tz, ret >>

FormatKey ==
    /\ ret' = [ op |-> "format_key", out |-> format_key(key), header |-> << >>, clock |-> Local ]
    /\ Frame

KeyUrlencode ==
    /\ ret' = [ op |-> "key_urlencode", out |-> key_urlencode(key), header |-> << >>, clock |-> Local ]
    /\ Frame

\* A call of sign_url(key, build) reads the clock once; into_iter yields the
\* map in any order.
Called(op, signed) ==
    [ op |-> op, out |-> signed, header |-> sign_url_header(build, Local), clock |-> Local ]

SignUrl ==
    /\ LET qp == query_parameters(oss, key, build, Local)
           k == format_key(key)
       IN  \E order \in IterationOrders(qp) :
              ret' = Called("sign_url", sign_url_format(k, qp, order))
    /\ Frame

SignUrlWithEndpoint ==
    /\ LET qp == query_parameters(oss, key, build, Local)
           k == format_key(key)
       IN  \E order \in IterationOrders(qp) :
              ret' = Called("sign_url_with_endpoint",
                            sign_url_with_endpoint(oss, sign_url_format(k, qp, order)))
    /\ Frame

SignUrlWithCdn ==
    /\ LET qp == query_parameters(oss, key, build, Local)
           k == format_key(key)
       IN  \E order \in IterationOrders(qp) :
              ret' = Called("sign_url_with_cdn",
                            sign_url_with_cdn(oss, cdn, sign_url_format(k, qp, order)))
    /\ Frame

\* get_object up to the request it builds: format_key, then build_request.
BuildRequest ==
    /\ LET r == build_request(oss, build.method, format_key(key), << >>, Local)
       IN  ret' = [ op |-> "build_request", out |-> r.url, header |-> r.header, clock |-> Local ]
    /\ Frame

NextKey == FormatKey \/ KeyUrlencode

NextSign == SignUrl \/ Tick

NextUrl == SignUrlWithEndpoint \/ SignUrlWithCdn \/ BuildRequest \/ Tick

Next ==
    \/ FormatKey
    \/ KeyUrlencode
    \/ SignUrl
    \/ SignUrlWithEndpoint
    \/ SignUrlWithCdn
    \/ BuildRequest
    \/ Tick

SpecKey == InitKey /\ [][NextKey]_vars

SpecSign == InitSign /\ [][NextSign]_vars

SpecUrl == InitUrl /\ [][NextUrl]_vars

Spec == Init /\ [][Next]_vars

(***************************************************************************)
(* Reading a result back: the path and the query string of a signed url,   *)
(* and the parameters of the query string                                  *)
(***************************************************************************)

\* The position of the first c in s, or Len(s) + 1.
First(s, c) ==
    IF \E i \in DOMAIN s : s[i] = c
    THEN CHOOSE i \in DOMAIN s : s[i] = c /\ \A h \in 1..(i - 1) : s[h] # c
    ELSE Len(s) + 1

PathOf(url) == SubSeq(url, 1, First(url, "?") - 1)

QueryOf(url) == SubSeq(url, First(url, "?") + 1, Len(url))

\* The name=value pairs of a query string, in the order they appear.
PairsOf(url) ==
    LET ps == Split(QueryOf(url), "&")
    IN  [ i \in DOMAIN ps |->
            << SubSeq(ps[i], 1, First(ps[i], "=") - 1),
               SubSeq(ps[i], First(ps[i], "=") + 1, Len(ps[i])) >> ]

NamesOf(url) == LET ps == PairsOf(url) IN [ i \in DOMAIN ps |-> ps[i][1] ]

\* The values the query string gives the name n.
ValuesOf(url, n) == LET ps == PairsOf(url) IN { ps[i][2] : i \in { j \in DOMAIN ps : ps[j][1] = n } }

Count(s, c) == Cardinality({ i \in DOMAIN s : s[i] = c })

HexValue(c) == (CHOOSE i \in DOMAIN HexDigits : HexDigits[i] = c) - 1

RECURSIVE PercentDecode(_)
\* The bytes a percent-encoded string stands for.
PercentDecode(s) ==
    IF s = << >> THEN << >>
    ELSE IF Head(s) = "%" /\ Len(s) >= 3 /\ s[2] \in Range(HexDigits) /\ s[3] \in Range(HexDigits)
         THEN << 16 * HexValue(s[2]) + HexValue(s[3]) >> \o PercentDecode(SubSeq(s, 4, Len(s)))
         ELSE Utf8[Head(s)] \o PercentDecode(Tail(s))

\* No character of s is a reserved one left unencoded: each is unreserved,
\* or belongs to a % followed by two hexadecimal digits.
WellEncoded(s) ==
    \A i \in DOMAIN s :
        \/ s[i] \in AsciiChars /\ AsciiCode[s[i]] \in Unreserved
        \/ s[i] = "%" /\ i + 2 <= Len(s) /\ s[i + 1] \in Range(HexDigits) /\ s[i + 2] \in Range(HexDigits)

SystemNames == { S_Expires, S_OSSAccessKeyId, S_Signature }

(***************************************************************************)
(* The claims                                                              *)
(***************************************************************************)

\* C1: after every call of sign_url, the Expires parameter of the returned
\* query string has exactly the value put in the Date slot of the header map
\* handed to sign.
C1_ExpiresIsTheSignedDate ==
    ret.op = "sign_url" => ValuesOf(ret.out, S_Expires) = { ret.header[S_Date] }

\* C2: the parameter names of the query string sign_url returns are exactly
\* Expires, OSSAccessKeyId, Signature and the caller's names other than
\* x-oss-ac-source-ip, each appearing once.
C2_ParameterSet ==
    ret.op = "sign_url" =>
        LET names == NamesOf(ret.out)
        IN  /\ Range(names) = SystemNames \cup (DOMAIN build.parameters \ { S_SourceIp })
            /\ \A i, j \in DOMAIN names : names[i] = names[j] => i = j
            /\ S_SourceIp \notin Range(names)

\* sign_url has run on a builder that holds x-oss-ac-source-ip and another
\* parameter.
C2_Witness ==
    /\ ret.op = "sign_url"
    /\ S_SourceIp \in DOMAIN build.parameters
    /\ S_TrafficLimit \in DOMAIN build.parameters

\* C3: the parameter names of the query string sign_url returns are in
\* strictly ascending byte order, whatever the iteration order of the map.
C3_NamesAscending ==
    ret.op = "sign_url" =>
        LET names == NamesOf(ret.out)
        IN  \A i \in 1..(Len(names) - 1) : BytesLess(Bytes(names[i]), Bytes(names[i + 1]))

\* sign_url has run on a builder of ten or more parameters that holds p1,
\* p10 and p2: p1 is a prefix of p10, which comes before p2.
C3_Witness ==
    /\ ret.op = "sign_url"
    /\ Cardinality(DOMAIN build.parameters) >= 10
    /\ { << "p", "1" >>, << "p", "1", "0" >>, << "p", "2" >> } \subseteq DOMAIN build.parameters

\* C4: format_key(k) starts with "/", is k itself when k starts with "/", and
\* is a fixed point of format_key.
C4_FormatKey ==
    ret.op = "format_key" =>
        /\ ret.out # << >> /\ Head(ret.out) = "/"
        /\ (key # << >> /\ Head(key) = "/") => ret.out = key
        /\ format_key(ret.out) = ret.out

\* format_key has run on a key that starts with "/" and goes on.
C4_Witness == ret.op = "format_key" /\ Len(key) > 1 /\ Head(key) = "/"

\* C5: build_request returns a header map with an Authorization entry
\* "OSS {key_id}:{signature}" and a Date entry holding the date computed in
\* the call.
C5_HeaderMode ==
    ret.op = "build_request" =>
        /\ S_Authorization \in DOMAIN ret.header
        /\ StartsWith(ret.header[S_Authorization], << "O", "S", "S", " " >> \o oss.key_id \o << ":" >>)
        /\ S_Date \in DOMAIN ret.header
        /\ ret.header[S_Date] = date(ret.clock)

\* C6: sign_url_with_endpoint returns {scheme}://{bucket}.{endpoint without
\* its scheme}{path}?{query}, the scheme being https when the endpoint begins
\* with https and http otherwise.
C6_EndpointUrlForm ==
    ret.op = "sign_url_with_endpoint" =>
        LET https == StartsWith(oss.endpoint, << "h", "t", "t", "p", "s" >>)
            host == IF https THEN ReplaceFirst(oss.endpoint, S_Https)
                    ELSE ReplaceFirst(oss.endpoint, S_Http)
            base == (IF https THEN S_Https ELSE S_Http) \o oss.bucket \o << "." >> \o host
        IN  /\ StartsWith(ret.out, base \o << "/" >>)
            /\ PathOf(ret.out) = base \o key_urlencode(format_key(key))

\* C7: sign_url_with_cdn returns cdn followed by what sign_url returns, and
\* returns the same for a client that differs in its endpoint only.
C7_CdnOverride ==
    ret.op = "sign_url_with_cdn" =>
        LET order == SomeOrder(DOMAIN query_parameters(oss, key, build, ret.clock))
        IN  /\ ret.out = cdn \o sign_url(oss, key, build, ret.clock, order)
            /\ \A e \in Endpoints :
                  LET other == [ oss EXCEPT !.endpoint = e ]
                  IN  ret.out = sign_url_with_cdn(other, cdn, sign_url(other, key, build, ret.clock, order))

\* sign_url_with_cdn has run for a client whose endpoint carries a scheme
\* other than the cdn's.
C7_Witness ==
    /\ ret.op = "sign_url_with_cdn"
    /\ oss.endpoint = S_Https \o S_Host
    /\ oss.bucket # << >>
    /\ StartsWith(cdn, S_Http)

\* C8: key_urlencode encodes each segment between "/" on its own and keeps
\* the "/": as many "/" as in the key, segment for segment the encoding of
\* the key's segment, no reserved character left unencoded, and decoding
\* gives the key back.
C8_KeyUrlencode ==
    ret.op = "key_urlencode" =>
        LET ins == Split(key, "/")
            outs == Split(ret.out, "/")
        IN  /\ Count(ret.out, "/") = Count(key, "/")
            /\ Len(outs) = Len(ins)
            /\ \A i \in DOMAIN outs :
                  /\ WellEncoded(outs[i])
                  /\ PercentDecode(outs[i]) = Bytes(ins[i])
            /\ PercentDecode(ret.out) = Bytes(key)

\* key_urlencode has run on a key with a "/" and a space.
C8_Witness == ret.op = "key_urlencode" /\ "/" \in Range(key) /\ " " \in Range(key)

\* C9: a second call of sign_url at the same clock reading returns the same
\* string as the first, whatever the iteration orders, and no step changes
\* the client.
C9_Deterministic ==
    [][ /\ (ret.op = "sign_url" /\ ret'.op = "sign_url" /\ ret'.clock = ret.clock) => ret'.out = ret.out
        /\ oss' = oss ]_vars

\* sign_url has run on a map of five entries, which into_iter may yield in
\* 120 orders.
C9_Witness == ret.op = "sign_url" /\ Cardinality(DOMAIN build.parameters \ SystemNames) = 2

\* C10: when the caller names a parameter Signature, Expires or
\* OSSAccessKeyId, the query string carries that name once, with the caller's
\* value percent-encoded.
C10_LastWriteWins ==
    ret.op = "sign_url" =>
        \A n \in SystemNames \cap DOMAIN build.parameters :
            /\ ValuesOf(ret.out, n) = { encode(build.parameters[n]) }
            /\ Count(NamesOf(ret.out), n) = 1

\* sign_url has run on a builder whose parameters name Signature and Expires.
C10_Witness ==
    /\ ret.op = "sign_url"
    /\ { S_Signature, S_Expires } \subseteq DOMAIN build.parameters

====
